---- MODULE Spec2Model ----
(***************************************************************************)
(* Model of plot_access_targets.py: the equilibrium-temperature formula    *)
(* calc_T_eq and the straight-line plotting pipeline (catalog load,        *)
(* header clean-up, transit filter, eq_temp column, target loops, legend,  *)
(* savefig).                                                               *)
(*                                                                         *)
(* Numbers are fixed point, because the script computes in floats:         *)
(*   star_teff, T_star      K                                              *)
(*   star_radius, R_star    1/100 solar radius                             *)
(*   semi_major_axis, distance   1/100 AU                                  *)
(*   albedo                 1/100                                          *)
(*   eq_temp, T_eq          1/10 K                                         *)
(* NaN is the missing value pandas puts in an empty numeric cell.          *)
(***************************************************************************)
EXTENDS Integers, Sequences, FiniteSets, TLC

VARIABLES
    catalogFile,   \* exoplanet.eu_catalog.csv as found on disk
    targetsFile,   \* targets.csv as found on disk
    outFile,       \* access_targets.pdf: <<>> while absent, <<figure>> once written
    pc,            \* position of the interpreter in the script
    df,            \* the catalog data frame
    df2,           \* the targets data frame
    k,             \* which of the four target loops is running (index in FlagSeq)
    todo,          \* names the running for loop still has to visit
    fig,           \* the matplotlib axes: draw calls and legend entries so far
    run,           \* how many times the script was started
    prevOut,       \* the output file as the previous run left it
    calc           \* a pair of calc_T_eq calls (function-level specification)

vars == <<catalogFile, targetsFile, outFile, pc, df, df2, k, todo, fig, run,
          prevOut, calc>>

----------------------------------------------------------------------------
\* Bounds of the model
MaxCatalogRows == 2
MaxTargetRows == 2
MaxRuns == 2

----------------------------------------------------------------------------
\* calc_T_eq

NaN == -1

RECURSIVE SqrtSearch(_, _, _)
SqrtSearch(x, lo, hi) ==
    IF lo >= hi THEN lo
    ELSE LET mid == (lo + hi + 1) \div 2
         IN  IF mid * mid <= x THEN SqrtSearch(x, mid, hi)
                               ELSE SqrtSearch(x, lo, mid - 1)

\* x ** 0.5 on integers: the largest s with s*s <= x
ISqrt(x) == SqrtSearch(x, 0, 46340)

\* R_star.to(u.km): 1 R_sun = 695700 km; the argument is in 1/100 R_sun
R_star_unconverted(R_star) == R_star
R_star_to_km(R_star) == R_star * 6957

\* distance.to(u.km): 1 AU = 149597870.7 km; the argument is in 1/100 AU
distance_to_km(distance) == distance * 1495979

\* (1 - albedo) ** 0.25, scaled by 10^4; albedo is in 1/100
AlbedoFactorNoComplement(albedo) == ISqrt(ISqrt(albedo * 1000000) * 10000)
AlbedoFactor(albedo) == ISqrt(ISqrt((100 - albedo) * 1000000) * 10000)

\* (R_star / (2*distance)) ** 0.5, scaled by 10^5; both arguments in km
RatioRoot(R_km, d_km) ==
    LET q == (R_km * 1000) \div ((2 * d_km) \div 10000)   \* ratio * 10^7
    IN  ISqrt(q * 1000)

\* T_eq in 1/10 K
calc_T_eq(T_star, R_star, distance, albedo) ==
    IF NaN \in {T_star, R_star, distance} THEN NaN
    ELSE LET R_km == R_star_to_km(R_star)
             d_km == distance_to_km(distance)
             t1   == (T_star * AlbedoFactor(albedo)) \div 1000
         IN  (t1 * RatioRoot(R_km, d_km)) \div 100000

----------------------------------------------------------------------------
\* Function-level specification: two calls whose arguments differ in at most
\* one place.

TStarGrid == {3000, 4000, 5778, 6500}
RStarGrid == {50, 100, 200}
DistanceGrid == {5, 100, 500}
AlbedoGrid == {0, 10, 30, 50}

ArgGrid == [T_star : TStarGrid, R_star : RStarGrid,
            distance : DistanceGrid, albedo : AlbedoGrid]

DiffCount(a, b) ==
    Cardinality({f \in {"T_star", "R_star", "distance", "albedo"} : a[f] # b[f]})

NoCalc == [a |-> <<>>, b |-> <<>>, ra |-> <<>>, rb |-> <<>>]

Apply(args) == calc_T_eq(args.T_star, args.R_star, args.distance, args.albedo)

CallA ==
    /\ pc = "idle"
    /\ calc.ra = <<>>
    /\ calc' = [calc EXCEPT !.ra = <<Apply(calc.a[1])>>]
    /\ UNCHANGED <<catalogFile, targetsFile, outFile, pc, df, df2, k, todo,
                   fig, run, prevOut>>

CallB ==
    /\ pc = "idle"
    /\ calc.rb = <<>>
    /\ calc' = [calc EXCEPT !.rb = <<Apply(calc.b[1])>>]
    /\ UNCHANGED <<catalogFile, targetsFile, outFile, pc, df, df2, k, todo,
                   fig, run, prevOut>>

----------------------------------------------------------------------------
\* Input files

\* A header cell is a sequence of pieces: "#" and " " are single characters,
\* any other piece is a run of characters that holds neither.
CatalogHeader ==
    {<<"#", " ", "name">>, <<"detection_type">>, <<"star_teff">>,
     <<"star_radius">>, <<"semi_major_axis">>, <<"radius">>}

TargetsHeader ==
    {<<"planet_name">>, <<"future">>, <<"obs_complete">>, <<"in_prep">>,
     <<"published">>}

CatRow(n, t, teff, rs, sma, r) ==
    [name |-> n, detection_type |-> t, star_teff |-> teff, star_radius |-> rs,
     semi_major_axis |-> sma, radius |-> r]

CatalogRowPool ==
    {CatRow("X", "Primary Transit", 5778, 100, 100, 1),
     CatRow("X", "Radial Velocity", 5778, 100, 100, 1),
     CatRow("Y", "Primary Transit", 6500, 200, 5, 2),
     CatRow("Y", "Primary Transit", NaN, 100, 100, 1)}

TgtRow(n, f, o, i, p) ==
    [planet_name |-> n, future |-> f, obs_complete |-> o, in_prep |-> i,
     published |-> p]

TargetRowPool ==
    {TgtRow("X", 0, 0, 0, 1), TgtRow("X", 1, 0, 0, 1), TgtRow("X", 0, 1, 1, 0),
     TgtRow("X", 0, 0, 0, 2), TgtRow("Y", 1, 0, 0, 0), TgtRow("Z", 1, 0, 0, 0)}

SeqsUpTo(S, n) == UNION {[1..m -> S] : m \in 0..n}

File(e, w, h, r) == [exists |-> e, wellformed |-> w, header |-> h, rows |-> r]

GoodCatalogs ==
    {File(TRUE, TRUE, CatalogHeader, r) : r \in SeqsUpTo(CatalogRowPool, MaxCatalogRows)}

GoodTargets ==
    {File(TRUE, TRUE, TargetsHeader, r) : r \in SeqsUpTo(TargetRowPool, MaxTargetRows)}

ScenarioCatalog ==
    File(TRUE, TRUE, CatalogHeader, <<CatRow("X", "Primary Transit", 5778, 100, 100, 1)>>)

ScenarioTargets ==
    File(TRUE, TRUE, TargetsHeader, <<TgtRow("X", 0, 0, 0, 1)>>)

\* Catalog files the script cannot digest: absent, unparsable, or a column
\* short; and one whose name column carries no "# " marker (which it can).
OddCatalogs ==
    {File(FALSE, TRUE, {}, <<>>),
     File(TRUE, FALSE, CatalogHeader, ScenarioCatalog.rows),
     File(TRUE, TRUE, (CatalogHeader \ {<<"#", " ", "name">>}) \cup {<<"name">>},
          ScenarioCatalog.rows)}
    \cup {File(TRUE, TRUE, CatalogHeader \ {c}, ScenarioCatalog.rows) : c \in CatalogHeader}

OddTargets ==
    {File(FALSE, TRUE, {}, <<>>),
     File(TRUE, FALSE, TargetsHeader, ScenarioTargets.rows),
     File(TRUE, TRUE, (TargetsHeader \ {<<"planet_name">>}) \cup {<<"#", " ", "planet_name">>},
          ScenarioTargets.rows)}
    \cup {File(TRUE, TRUE, TargetsHeader \ {c}, ScenarioTargets.rows) : c \in TargetsHeader}

FewTargets ==
    {File(TRUE, TRUE, TargetsHeader, r) :
        r \in {<<>>, <<TgtRow("X", 0, 0, 0, 1)>>, <<TgtRow("X", 0, 0, 0, 2)>>}}

Inputs ==
    (GoodCatalogs \X GoodTargets)
    \cup (OddCatalogs \X (FewTargets \cup OddTargets))
    \cup ({ScenarioCatalog} \X OddTargets)

----------------------------------------------------------------------------
\* Data-frame helpers

RECURSIVE LStrip(_, _)
LStrip(s, chars) ==
    IF s # <<>> /\ Head(s) \in chars THEN LStrip(Tail(s), chars) ELSE s

RECURSIVE RStrip(_, _)
RStrip(s, chars) ==
    IF s # <<>> /\ s[Len(s)] \in chars THEN RStrip(SubSeq(s, 1, Len(s) - 1), chars)
    ELSE s

\* str.strip('# '): drop leading and trailing '#' and ' ' characters
Strip(s) == RStrip(LStrip(s, {"#", " "}), {"#", " "})

\* pd.read_csv succeeds
ReadAnyway(file) == file.exists
ReadOk(file) == file.exists /\ file.wellformed

\* attribute access df.<c> finds a column
HasColumn(frame, c) == <<c>> \in frame.cols

\* pd.read_csv: the frame keeps the header as is and numbers the rows
ReadCsv(file) ==
    [cols |-> file.header,
     rows |-> [i \in 1..Len(file.rows) |-> [idx |-> i, rec |-> file.rows[i]]]]

\* df.rename(columns={'name': 'planet_name'}) on one record
RenameRec(rec) ==
    [c \in (DOMAIN rec \ {"name"}) \cup {"planet_name"} |->
        IF c = "planet_name" THEN rec["name"] ELSE rec[c]]

KeepAll(row) == TRUE
IsTransit(row) == row.rec.detection_type = "Primary Transit"

WithEqTempNoAlbedo(row, albedo) ==
    [row EXCEPT !.rec = [c \in DOMAIN row.rec \cup {"eq_temp"} |->
        IF c = "eq_temp"
        THEN calc_T_eq(row.rec.star_teff, row.rec.star_radius,
                       row.rec.semi_major_axis, 0)
        ELSE row.rec[c]]]
\* one row of df with its eq_temp cell set
WithEqTemp(row, albedo) ==
    [row EXCEPT !.rec = [c \in DOMAIN row.rec \cup {"eq_temp"} |->
        IF c = "eq_temp"
        THEN calc_T_eq(row.rec.star_teff, row.rec.star_radius,
                       row.rec.semi_major_axis, albedo)
        ELSE row.rec[c]]]

\* the albedo the script passes, in 1/100
ALBEDO == 10

\* The order of the four target loops, and each loop's marker face colour
FlagSeqAlt == <<"published", "future", "obs_complete", "in_prep">>
FlagSeq == <<"future", "obs_complete", "in_prep", "published">>

Color(flag) ==
    CASE flag = "future" -> "gray"
      [] flag = "obs_complete" -> "C1"
      [] flag = "in_prep" -> "C0"
      [] flag = "published" -> "C2"

\* df2.planet_name[df2.<flag> == 1]
SelectedTruthy(frame, flag) ==
    LET hit == SelectSeq(frame.rows, LAMBDA row : row.rec[flag] # 0)
    IN  [i \in 1..Len(hit) |-> hit[i].rec.planet_name]
Selected(frame, flag) ==
    LET hit == SelectSeq(frame.rows, LAMBDA row : row.rec[flag] = 1)
    IN  [i \in 1..Len(hit) |-> hit[i].rec.planet_name]

\* df[df.planet_name == name]
MatchOrFirst(frame, name) ==
    LET hit == SelectSeq(frame.rows, LAMBDA row : row.rec.planet_name = name)
    IN  IF hit = <<>> /\ frame.rows # <<>> THEN <<frame.rows[1]>> ELSE hit
Match(frame, name) ==
    SelectSeq(frame.rows, LAMBDA row : row.rec.planet_name = name)

\* the (x, y) data handed to ax.plot, with the catalog row each pair comes from
Points(rows) ==
    [i \in 1..Len(rows) |->
        [x |-> rows[i].rec.eq_temp, y |-> rows[i].rec.radius, idx |-> rows[i].idx]]

\* a for loop visits the entries of the Series in index order
NextIdxAny(s) == DOMAIN s
NextIdx(s) == {1}

Remove(s, j) == [i \in 1..(Len(s) - 1) |-> IF i < j THEN s[i] ELSE s[i + 1]]

H2O == 300
NH3_N2 == 600
CH4_CO == 1000
MnS == 1300
Silicates_MetalOxides == <<1600, 1900>>

EmptyFig == [vlines |-> <<>>, spans |-> <<>>, draws |-> <<>>, legend |-> <<>>]

LegendSeqAsDrawn ==
    <<[label |-> "Collecting Data", mfc |-> "gray", points |-> <<>>],
      [label |-> "Analysis Underway", mfc |-> "C1", points |-> <<>>],
      [label |-> "Paper in Prep.", mfc |-> "C0", points |-> <<>>],
      [label |-> "Published", mfc |-> "C2", points |-> <<>>],
      [label |-> "Temp. transition of molecules", mfc |-> "", points |-> <<>>]>>
LegendSeq ==
    <<[label |-> "Published", mfc |-> "C2", points |-> <<>>],
      [label |-> "Paper in Prep.", mfc |-> "C0", points |-> <<>>],
      [label |-> "Analysis Underway", mfc |-> "C1", points |-> <<>>],
      [label |-> "Collecting Data", mfc |-> "gray", points |-> <<>>],
      [label |-> "Temp. transition of molecules", mfc |-> "", points |-> <<>>]>>

NoFrame == [cols |-> {}, rows |-> <<>>]

----------------------------------------------------------------------------
\* The script, one action per statement

\* an unhandled exception ends the process
Raise ==
    /\ pc' = "failed"
    /\ UNCHANGED <<catalogFile, targetsFile, outFile, df, df2, k, todo, fig,
                   run, prevOut, calc>>

\* df = pd.read_csv('exoplanet.eu_catalog.csv')
ReadCatalog ==
    /\ pc = "read_catalog"
    /\ IF ReadOk(catalogFile)
       THEN /\ df' = ReadCsv(catalogFile)
            /\ pc' = "strip"
            /\ UNCHANGED <<catalogFile, targetsFile, outFile, df2, k, todo,
                           fig, run, prevOut, calc>>
       ELSE Raise

\* df.columns = df.columns.str.strip('# ')
StripColumns ==
    /\ pc = "strip"
    /\ df' = [df EXCEPT !.cols = {Strip(c) : c \in df.cols}]
    /\ pc' = "rename"
    /\ UNCHANGED <<catalogFile, targetsFile, outFile, df2, k, todo, fig, run,
                   prevOut, calc>>

\* df = df.rename(columns={'name': 'planet_name'})
RenameColumn ==
    /\ pc = "rename"
    /\ df' = IF HasColumn(df, "name")
             THEN [cols |-> (df.cols \ {<<"name">>}) \cup {<<"planet_name">>},
                   rows |-> [i \in 1..Len(df.rows) |->
                               [df.rows[i] EXCEPT !.rec = RenameRec(@)]]]
             ELSE df
    /\ pc' = "filter"
    /\ UNCHANGED <<catalogFile, targetsFile, outFile, df2, k, todo, fig, run,
                   prevOut, calc>>

\* df = df[df.detection_type == 'Primary Transit']
FilterTransit ==
    /\ pc = "filter"
    /\ IF HasColumn(df, "detection_type")
       THEN /\ df' = [df EXCEPT !.rows = SelectSeq(df.rows, IsTransit)]
            /\ pc' = "eq_temp"
            /\ UNCHANGED <<catalogFile, targetsFile, outFile, df2, k, todo,
                           fig, run, prevOut, calc>>
       ELSE Raise

\* df['eq_temp'] = calc_T_eq(df.star_teff..., df.star_radius..., df.semi_major_axis..., 0.1)
ComputeEqTemp ==
    /\ pc = "eq_temp"
    /\ IF /\ HasColumn(df, "star_teff")
          /\ HasColumn(df, "star_radius")
          /\ HasColumn(df, "semi_major_axis")
       THEN /\ df' = [cols |-> df.cols \cup {<<"eq_temp">>},
                      rows |-> [i \in 1..Len(df.rows) |-> WithEqTemp(df.rows[i], ALBEDO)]]
            /\ pc' = "read_targets"
            /\ UNCHANGED <<catalogFile, targetsFile, outFile, df2, k, todo,
                           fig, run, prevOut, calc>>
       ELSE Raise

\* df2 = pd.read_csv('targets.csv')
ReadTargets ==
    /\ pc = "read_targets"
    /\ IF ReadOk(targetsFile)
       THEN /\ df2' = ReadCsv(targetsFile)
            /\ pc' = "figure"
            /\ UNCHANGED <<catalogFile, targetsFile, outFile, df, k, todo,
                           fig, run, prevOut, calc>>
       ELSE Raise

\* fig, ax = plt.subplots(...) up to the last ax.text: title, labels, the
\* four transition lines and the shaded band
MakeFigure ==
    /\ pc = "figure"
    /\ fig' = [EmptyFig EXCEPT !.vlines = <<H2O, NH3_N2, CH4_CO, MnS>>,
                               !.spans = <<Silicates_MetalOxides>>]
    /\ pc' = "plot_all"
    /\ UNCHANGED <<catalogFile, targetsFile, outFile, df, df2, k, todo, run,
                   prevOut, calc>>

Draw(kind, mec, mfc, name, rows) ==
    [kind |-> kind, mec |-> mec, mfc |-> mfc, name |-> name, points |-> Points(rows)]

\* ax.plot(df.eq_temp, df.radius, ..., mec='lightgray', mfc='None', ...)
PlotAll ==
    /\ pc = "plot_all"
    /\ IF HasColumn(df, "eq_temp") /\ HasColumn(df, "radius")
       THEN /\ fig' = [fig EXCEPT !.draws =
                         Append(@, Draw("all", "lightgray", "None", "", df.rows))]
            /\ k' = 1
            /\ pc' = "loop_start"
            /\ UNCHANGED <<catalogFile, targetsFile, outFile, df, df2, todo,
                           run, prevOut, calc>>
       ELSE Raise

\* for name in df2.planet_name[df2.<flag>==1]:   (the iterable is evaluated)
LoopStart ==
    /\ pc = "loop_start"
    /\ IF HasColumn(df2, "planet_name") /\ HasColumn(df2, FlagSeq[k])
       THEN /\ todo' = Selected(df2, FlagSeq[k])
            /\ pc' = "loop_body"
            /\ UNCHANGED <<catalogFile, targetsFile, outFile, df, df2, k, fig,
                           run, prevOut, calc>>
       ELSE Raise

\* target = df[df.planet_name==name]; ax.plot(target.eq_temp, target.radius, ...)
LoopBody ==
    /\ pc = "loop_body"
    /\ todo # <<>>
    /\ \E j \in NextIdx(todo) :
         IF HasColumn(df, "planet_name")
         THEN /\ fig' = [fig EXCEPT !.draws =
                           Append(@, Draw(FlagSeq[k], "k", Color(FlagSeq[k]),
                                          todo[j], Match(df, todo[j])))]
              /\ todo' = Remove(todo, j)
              /\ UNCHANGED <<catalogFile, targetsFile, outFile, pc, df, df2, k,
                             run, prevOut, calc>>
         ELSE Raise

\* the Series is exhausted: on to the next for statement, or to the legend
LoopEnd ==
    /\ pc = "loop_body"
    /\ todo = <<>>
    /\ IF k < Len(FlagSeq)
       THEN k' = k + 1 /\ pc' = "loop_start"
       ELSE k' = 0 /\ pc' = "legend"
    /\ UNCHANGED <<catalogFile, targetsFile, outFile, df, df2, todo, fig, run,
                   prevOut, calc>>

\* the five ax.plot([], [], ..., label=...) calls and ax.legend
Legend ==
    /\ pc = "legend"
    /\ fig' = [fig EXCEPT !.legend = LegendSeq]
    /\ pc' = "savefig"
    /\ UNCHANGED <<catalogFile, targetsFile, outFile, df, df2, k, todo, run,
                   prevOut, calc>>

\* plt.savefig('access_targets.pdf', bbox_inches='tight')
SaveFig ==
    /\ pc = "savefig"
    /\ outFile' = <<fig>>
    /\ pc' = "done"
    /\ UNCHANGED <<catalogFile, targetsFile, df, df2, k, todo, fig, run,
                   prevOut, calc>>

\* the script is started again in the same directory
Rerun ==
    /\ pc = "done"
    /\ run < MaxRuns
    /\ run' = run + 1
    /\ prevOut' = outFile
    /\ pc' = "read_catalog"
    /\ df' = NoFrame
    /\ df2' = NoFrame
    /\ fig' = EmptyFig
    /\ k' = 0
    /\ todo' = <<>>
    /\ UNCHANGED <<catalogFile, targetsFile, outFile, calc>>

Init ==
    /\ \E in \in Inputs : catalogFile = in[1] /\ targetsFile = in[2]
    /\ outFile = <<>>
    /\ pc = "read_catalog"
    /\ df = NoFrame
    /\ df2 = NoFrame
    /\ k = 0
    /\ todo = <<>>
    /\ fig = EmptyFig
    /\ run = 1
    /\ prevOut = <<>>
    /\ calc = NoCalc

Next ==
    \/ ReadCatalog
    \/ StripColumns
    \/ RenameColumn
    \/ FilterTransit
    \/ ComputeEqTemp
    \/ ReadTargets
    \/ MakeFigure
    \/ PlotAll
    \/ LoopStart
    \/ LoopBody
    \/ LoopEnd
    \/ Legend
    \/ SaveFig
    \/ Rerun

Spec == Init /\ [][Next]_vars

\* calc_T_eq on its own
InitCalc ==
    /\ \E a \in ArgGrid, b \in ArgGrid :
         /\ DiffCount(a, b) <= 1
         /\ calc = [a |-> <<a>>, b |-> <<b>>, ra |-> <<>>, rb |-> <<>>]
    /\ catalogFile = File(FALSE, TRUE, {}, <<>>)
    /\ targetsFile = File(FALSE, TRUE, {}, <<>>)
    /\ outFile = <<>>
    /\ pc = "idle"
    /\ df = NoFrame
    /\ df2 = NoFrame
    /\ k = 0
    /\ todo = <<>>
    /\ fig = EmptyFig
    /\ run = 1
    /\ prevOut = <<>>

NextCalc == CallA \/ CallB

SpecCalc == InitCalc /\ [][NextCalc]_vars

----------------------------------------------------------------------------
\* Vocabulary of the properties, read off the files and the figure

Transit == "Primary Transit"

\* the flags in the order the properties speak of
StatedOrder == <<"future", "obs_complete", "in_prep", "published">>

Rank(flag) == CHOOSE i \in 1..4 : StatedOrder[i] = flag

\* the highlighted draw calls, in the order they were made
Highlights == SelectSeq(fig.draws, LAMBDA e : e.kind # "all")

\* every (draw call, point) of one flag
DrawnPoints(flag) ==
    UNION {{<<i, j>> : j \in DOMAIN fig.draws[i].points} :
              i \in {n \in DOMAIN fig.draws : fig.draws[n].kind = flag}}

\* every (target row with the flag at 1, transit catalog row of the same name)
Pairs(flag) ==
    {tc \in (DOMAIN targetsFile.rows) \X (DOMAIN catalogFile.rows) :
        /\ targetsFile.rows[tc[1]][flag] = 1
        /\ catalogFile.rows[tc[2]].detection_type = Transit
        /\ catalogFile.rows[tc[2]].name = targetsFile.rows[tc[1]].planet_name}

\* the name has no row in the filtered catalog
Unmatched(name) ==
    ~ \E c \in DOMAIN catalogFile.rows :
          /\ catalogFile.rows[c].detection_type = Transit
          /\ catalogFile.rows[c].name = name

\* within half a kelvin; both sides in 1/10 K
Approx(x, c) == x >= c - 5 /\ x <= c + 5

Plotting == pc \in {"plot_all", "loop_start", "loop_body", "legend", "savefig", "done"}

\* the catalog columns as the script sees them after lines 28-29
SeenCatalogCols ==
    LET stripped == {Strip(c) : c \in catalogFile.header}
    IN  IF <<"name">> \in stripped
        THEN (stripped \ {<<"name">>}) \cup {<<"planet_name">>}
        ELSE stripped

AnyFlagged ==
    \E t \in DOMAIN targetsFile.rows, i \in 1..4 : targetsFile.rows[t][StatedOrder[i]] = 1

\* the conditions under which some statement of the script raises
Defect ==
    \/ ~ catalogFile.exists
    \/ ~ catalogFile.wellformed
    \/ ~ targetsFile.exists
    \/ ~ targetsFile.wellformed
    \/ \E c \in {"detection_type", "star_teff", "star_radius", "semi_major_axis", "radius"} :
          <<c>> \notin SeenCatalogCols
    \/ \E c \in {"planet_name", "future", "obs_complete", "in_prep", "published"} :
          <<c>> \notin targetsFile.header
    \/ <<"planet_name">> \notin SeenCatalogCols /\ AnyFlagged

----------------------------------------------------------------------------
\* C1: once the catalog is filtered, every row of df, every row that carries
\* an eq_temp, every background point and every highlighted point comes from
\* a catalog row whose detection_type is exactly "Primary Transit".
C1_OnlyTransitDownstream ==
    /\ pc \in {"eq_temp", "read_targets", "figure", "plot_all", "loop_start",
              "loop_body", "legend", "savefig", "done"} =>
          \A i \in DOMAIN df.rows :
              catalogFile.rows[df.rows[i].idx].detection_type = Transit
    /\ \A i \in DOMAIN df.rows :
          "eq_temp" \in DOMAIN df.rows[i].rec =>
              df.rows[i].rec.detection_type = Transit
    /\ \A n \in DOMAIN fig.draws : \A j \in DOMAIN fig.draws[n].points :
          catalogFile.rows[fig.draws[n].points[j].idx].detection_type = Transit

C1_Witness ==
    /\ pc = "done"
    /\ \E c \in DOMAIN catalogFile.rows :
          /\ catalogFile.rows[c].detection_type # Transit
          /\ \E n \in DOMAIN Highlights :
                /\ Highlights[n].name = catalogFile.rows[c].name
                /\ Highlights[n].points # <<>>

\* C2: a flagged name with no row in the filtered catalog gets a draw call
\* with no points, raises nothing (sound files never end in failure), and the
\* loops go on: at the end every flagged name, matched or not, has had its
\* draw call, in file order, and the output file is written.
C2_AbsentNameIsSilent ==
    /\ \A n \in DOMAIN Highlights :
          Unmatched(Highlights[n].name) => Highlights[n].points = <<>>
    /\ (catalogFile \in GoodCatalogs /\ targetsFile \in GoodTargets) => pc # "failed"
    /\ pc = "done" =>
          /\ outFile = <<fig>>
          /\ \A i \in 1..4 :
                LET f    == StatedOrder[i]
                    evs  == SelectSeq(Highlights, LAMBDA e : e.kind = f)
                    rows == SelectSeq(targetsFile.rows, LAMBDA r : r[f] = 1)
                IN  /\ Len(evs) = Len(rows)
                    /\ \A n \in DOMAIN evs : evs[n].name = rows[n].planet_name

C2_Witness ==
    /\ pc = "done"
    /\ \E m, n \in DOMAIN Highlights :
          /\ m < n
          /\ Unmatched(Highlights[m].name)
          /\ Highlights[m].points = <<>>
          /\ Highlights[n].points # <<>>

\* C3: highlighted draw calls come in the order future, obs_complete,
\* in_prep, published; a target row with two flags at 1 has one draw call per
\* flag, with the same points, and the later flag's call comes later.
C3_FlagOrder ==
    /\ \A m, n \in DOMAIN Highlights :
          m < n => Rank(Highlights[m].kind) <= Rank(Highlights[n].kind)
    /\ pc = "done" =>
          \A t \in DOMAIN targetsFile.rows : \A a, b \in 1..4 :
              (/\ a < b
               /\ targetsFile.rows[t][StatedOrder[a]] = 1
               /\ targetsFile.rows[t][StatedOrder[b]] = 1) =>
                  \E m, n \in DOMAIN Highlights :
                      /\ m < n
                      /\ Highlights[m].kind = StatedOrder[a]
                      /\ Highlights[n].kind = StatedOrder[b]
                      /\ Highlights[m].name = targetsFile.rows[t].planet_name
                      /\ Highlights[n].name = targetsFile.rows[t].planet_name
                      /\ Highlights[m].points = Highlights[n].points

C3_Witness ==
    /\ pc = "done"
    /\ \E m, n \in DOMAIN Highlights :
          /\ m < n
          /\ Highlights[m].kind = "future"
          /\ Highlights[n].kind = "published"
          /\ Highlights[m].name = Highlights[n].name
          /\ Highlights[m].points # <<>>
          /\ Highlights[m].points = Highlights[n].points

InScenario == catalogFile = ScenarioCatalog /\ targetsFile = ScenarioTargets

\* C4 as stated: in the scenario the one highlighted point lies at about
\* 278.5 K and has the published colour.
C4_Stated ==
    (InScenario /\ pc = "done") =>
        /\ Len(Highlights) = 1
        /\ Len(Highlights[1].points) = 1
        /\ Approx(Highlights[1].points[1].x, 2785)
        /\ Highlights[1].mfc = "C2"

\* C4: in the scenario the output holds exactly one highlighted point, with
\* the published colour, at about 271.4 K: the pipeline applies albedo 0.1.
C4_Scenario ==
    (InScenario /\ pc = "done") =>
        /\ Len(Highlights) = 1
        /\ Len(Highlights[1].points) = 1
        /\ Approx(Highlights[1].points[1].x, 2714)
        /\ Highlights[1].points[1].y = 1
        /\ Highlights[1].mfc = "C2"
        /\ outFile = <<fig>>

C4_Witness == InScenario /\ pc = "done" /\ Len(Highlights) = 1

\* the category an entry of the legend stands for
LegendFlags ==
    [i \in 1..4 |-> CHOOSE f \in {"future", "obs_complete", "in_prep", "published", ""} :
        IF i <= Len(fig.legend) /\ \E g \in 1..4 : Color(StatedOrder[g]) = fig.legend[i].mfc
        THEN f # "" /\ Color(f) = fig.legend[i].mfc
        ELSE f = ""]

\* C5 as stated: the four category entries of the legend are added in the
\* order the categories are drawn.
C5_Stated ==
    pc \in {"savefig", "done"} => LegendFlags = StatedOrder

\* C5: for every input the legend gets one entry without data per category,
\* in the reverse of the drawing order (published, in_prep, obs_complete,
\* future), followed by the entry of the transition lines.
C5_LegendEntries ==
    pc \in {"savefig", "done"} =>
        /\ Len(fig.legend) = 5
        /\ LegendFlags = [i \in 1..4 |-> StatedOrder[5 - i]]
        /\ \A i \in 1..5 : fig.legend[i].points = <<>>
        /\ fig.legend[5].label = "Temp. transition of molecules"

C5_Witness ==
    /\ pc = "done"
    /\ DrawnPoints("published") # {}
    /\ DrawnPoints("future") = {}
    /\ Len(fig.legend) = 5

----------------------------------------------------------------------------
Both == calc.ra # <<>> /\ calc.rb # <<>>

SameBut(f) ==
    \A g \in {"T_star", "R_star", "distance", "albedo"} \ {f} : calc.a[1][g] = calc.b[1][g]

\* C6: with the other three arguments fixed, calc_T_eq falls when distance
\* grows, falls when albedo grows, rises with T_star and rises with R_star.
C6_Monotone ==
    Both =>
        LET a == calc.a[1]
            b == calc.b[1]
        IN  /\ (SameBut("distance") /\ a.distance < b.distance) => calc.ra[1] > calc.rb[1]
            /\ (SameBut("albedo") /\ a.albedo < b.albedo) => calc.ra[1] > calc.rb[1]
            /\ (SameBut("T_star") /\ a.T_star < b.T_star) => calc.ra[1] < calc.rb[1]
            /\ (SameBut("R_star") /\ a.R_star < b.R_star) => calc.ra[1] < calc.rb[1]

C6_Witness ==
    /\ Both
    /\ SameBut("distance")
    /\ calc.a[1].distance < calc.b[1].distance
    /\ calc.ra[1] > calc.rb[1]

EarthArgs == [T_star |-> 5778, R_star |-> 100, distance |-> 100, albedo |-> 0]

\* C7: calc_T_eq(5778 K, 1 R_sun, 1 AU, 0) is 278.5 K to within half a kelvin.
C7_EarthLike ==
    (calc.a = <<EarthArgs>> /\ calc.ra # <<>>) => Approx(calc.ra[1], 2785)

C7_Witness == calc.a = <<EarthArgs>> /\ calc.ra # <<>> /\ calc.ra[1] > 0

----------------------------------------------------------------------------
C9_FailStop ==
    /\ [](Defect => outFile = <<>>)
    /\ [](pc = "failed" => Defect)
    /\ [][pc # "failed"]_vars
    /\ [][outFile' # outFile => pc = "savefig" /\ pc' = "done"]_vars

C9_Witness ==
    /\ pc = "failed"
    /\ fig.draws # <<>>
    /\ outFile = <<>>

\* C10: at the end, the points drawn for a flag are as many as the pairs
\* (target row with that flag at 1, transit catalog row with the same name),
\* each draw call holds exactly the transit rows of its name, and the total
\* over the four flags is the sum of the four pair counts.
C10_OnePointPerPair ==
    pc = "done" =>
        /\ \A i \in 1..4 :
              Cardinality(DrawnPoints(StatedOrder[i])) = Cardinality(Pairs(StatedOrder[i]))
        /\ \A n \in DOMAIN Highlights :
              {Highlights[n].points[j].idx : j \in DOMAIN Highlights[n].points}
                = {c \in DOMAIN catalogFile.rows :
                      /\ catalogFile.rows[c].detection_type = Transit
                      /\ catalogFile.rows[c].name = Highlights[n].name}
        /\ Cardinality(UNION {DrawnPoints(StatedOrder[i]) : i \in 1..4})
              = Cardinality(Pairs("future")) + Cardinality(Pairs("obs_complete"))
                + Cardinality(Pairs("in_prep")) + Cardinality(Pairs("published"))

C10_Witness ==
    /\ pc = "done"
    /\ \E n \in DOMAIN Highlights : Len(Highlights[n].points) = 2
    /\ \E t \in DOMAIN targetsFile.rows : targetsFile.rows[t].published = 2
    /\ Cardinality(DrawnPoints("published")) < Len(targetsFile.rows)

====
